---- MODULE Spec2Model ----
(***************************************************************************)
(* Model of lsp_utils' managed server provisioning:                        *)
(*   - ServerNpmResource (server_npm_resource.py): Node runtime resolution *)
(*     with its per-process cache, the staleness check needs_installation  *)
(*     and the wipe / copy / npm install sequence of install_or_update;    *)
(*   - ClientHandler.can_start (_client_handler/abstract_plugin.py);       *)
(*   - the handler decorators (_client_handler/decorator.py) and their     *)
(*     registration by ClientHandler._register_decorated_handlers;         *)
(*   - the legacy handlers: setup and on_start of                          *)
(*     _client_handler/language_handler.py, on_start of                    *)
(*     npm_client_handler.py.                                              *)
(*                                                                         *)
(* The file system is modelled by what the code reads and writes: the      *)
(* source package (its package.json bytes, and whether it bundles a        *)
(* node_modules directory) and, per destination path, the directory there  *)
(* (whether it exists, its package.json bytes, its node_modules); `dest`   *)
(* is the directory at the resource's own path _server_dest.               *)
(* install_or_update is a sequence of blocking I/O calls run on a worker   *)
(* thread, so each I/O call is one step of the worker.                     *)
(***************************************************************************)
EXTENDS Integers, Sequences, FiniteSets, TLC

\* ------------------------------------------------------------------ bounds
\* Number of distinct package.json contents.
NumManifests == 2
\* Node versions are <<major, minor, patch>> with major in 1..MaxMajor.
MaxMajor == 2
\* Longest 'node_distributions' setting list.
MaxCandidates == 2
\* Longest list of server events given to a handler decorator.
MaxEvents == 2
\* Number of setup() calls made on one legacy handler class.
MaxSetups == 2

\* ------------------------------------------------------------------ values
None == "None"
\* A directory that is not there, a file that is not there, a file's bytes.
NoDir == "absent"
NoFile == <<"absent">>
\* A file that is there and cannot be opened for reading.
NoAccess == <<"no access">>
Manifests == {<<"bytes", i>> : i \in 1..NumManifests}
Workers == {"w1", "w2"}
\* SemanticVersion: <<major, minor, patch>>.
Versions == {<<major, minor, 0>> : major \in 1..MaxMajor, minor \in 0..1}
NoVersion == <<0, 0, 0>>

\* ServerStatus (server_resource_interface.ServerStatus, used by name only).
UNINITIALIZED == "UNINITIALIZED"
ERROR == "ERROR"
READY == "READY"
ServerStatus == {UNINITIALIZED, ERROR, READY}

VARIABLES
    node_distributions,     \* the 'node_distributions' setting of lsp_utils
    sysNode,                \* the Node.js on the PATH (NodeDistributionPATH)
    localNode,              \* the Node.js in lsp_utils' storage (NodeDistributionLocal)
    node_distribution_resolved, \* ServerNpmResource._node_distribution_resolved
    node_distribution,      \* ServerNpmResource._node_distribution
    prompts,                \* how often the 'Install Node.js' dialog was shown
    resolutions,            \* how often resolve_node_distribution was called
    resolveLog,             \* the candidates resolve_node_distribution went through
    server,                 \* cls.get_server(): None or the ServerNpmResource
    status,                 \* ServerNpmResource._status
    src,                    \* the package's source assets (_server_src)
    node_version,           \* the Node version the resource was built for
    disk,                   \* the directory tree at each destination path
    staged,                 \* the Node versions whose directory received a copy
    pc,                     \* per worker: position inside install_or_update
    dependencies_installed, \* per worker: local of install_or_update
    call,                   \* per worker: the install_or_update call in progress
    last,                   \* the most recently finished install_or_update call
    srcChanged,             \* the source changed since that call finished
    ret,                    \* what the step just taken returned to its caller
    attrs,                  \* per method of the plugin class: its handler marks
    applied,                \* per method and client event: the decorator put on it last
    registered,             \* the calls made to api.on_notification / api.on_request
    constructed,            \* ClientHandler.__init__ has run
    setups,                 \* how often the legacy ClientHandler.setup() was called
    started                 \* how many asynchronous installs setup() started

resolutionVars == <<node_distributions, sysNode, localNode,
                    node_distribution_resolved, node_distribution, prompts,
                    resolutions, resolveLog>>

vars == <<node_distributions, sysNode, localNode, node_distribution_resolved,
          node_distribution, prompts, resolutions, resolveLog,
          server, status, src, node_version, disk, staged, pc,
          dependencies_installed, call, last, srcChanged, ret,
          attrs, applied, registered, constructed, setups, started>>

handlerVars == <<attrs, applied, registered, constructed>>
legacyVars == <<setups, started>>
provisionVars == <<node_distributions, sysNode, localNode,
                   node_distribution_resolved, node_distribution, prompts,
                   resolutions, resolveLog, server, status, src, node_version,
                   disk, staged, pc, dependencies_installed, call, last,
                   srcChanged, ret>>

\* ------------------------------------------------------------- file system
\* A directory tree at _server_dest.
NoTree == [exists |-> FALSE, manifest |-> NoFile, node_modules |-> NoDir]
Trees == {NoTree} \cup
         [exists : {TRUE}, manifest : Manifests \cup {NoFile, NoAccess},
          node_modules : {NoDir, "bundled", "installed"}]
Sources == [manifest : Manifests, bundled : BOOLEAN]

\* helpers.version_to_string: 'major.minor.patch'.
version_to_string(version) ==
    ToString(version[1]) \o "." \o ToString(version[2]) \o "." \o ToString(version[3])

\* path.join(a, b, c)
path_join(a, b, c) == a \o "/" \o b \o "/" \o c

\* The create() options that name the package's storage and server directory.
package_storage == "Package Storage/LSP-package"
server_directory == "server"

\* Mutant: the destination path does not name the Node version.
server_dest_unversioned(version) == path_join(package_storage, "node", server_directory)

\* _server_dest of a resource built for the Node `version` (lines 98-99).
server_dest_for(version) ==
    path_join(package_storage, version_to_string(version), server_directory)

\* The destination paths of the package, one per Node version.
Paths == {server_dest_for(version) : version \in Versions}
EmptyDisk == [p \in Paths |-> NoTree]

\* self._server_dest, and the directory tree the disk holds there.
server_dest == server_dest_for(node_version)
dest == IF node_version = NoVersion THEN NoTree ELSE disk[server_dest]

\* hashlib.md5(bytes).hexdigest(): a digest of the bytes, taken collision-free.
md5(bytes) == <<"md5", bytes>>

\* path.isdir(path.join(self._server_dest, 'node_modules'))
isdir_node_modules(d) == d.exists /\ d.node_modules # NoDir

\* shutil.rmtree(self._server_dest, ignore_errors=True)
rmtree(d) == NoTree

\* Mutant: the copy leaves package.json out.
copytree_without_manifest(s, d) ==
    [exists |-> TRUE,
     manifest |-> d.manifest,
     node_modules |-> IF s.bundled THEN "bundled" ELSE d.node_modules]

\* ResourcePath(self._server_src).copytree(self._server_dest, exist_ok=True),
\* completed: every source file is written over what the destination holds.
copytree(s, d) ==
    [exists |-> TRUE,
     manifest |-> s.manifest,
     node_modules |-> IF s.bundled THEN "bundled" ELSE d.node_modules]

\* The trees a copy that fails part-way can leave behind.
copytree_partial(s, d) ==
    {t \in Trees :
        /\ t.exists
        /\ t.manifest \in {d.manifest, s.manifest}
        /\ t.node_modules \in {d.node_modules} \cup
                              (IF s.bundled THEN {"bundled"} ELSE {})}

\* NodeDistribution.npm_install(package_dir) exiting 0: node_modules is there.
npm_installed(d) == [d EXCEPT !.node_modules = "installed"]

NoRet == [op |-> "none"]

\* ------------------------------------------------------ needs_installation
\* Mutant: the manifest hashes are not compared.
installed_without_hash(s, d) == isdir_node_modules(d) /\ d.manifest # NoFile

\* open(..., 'rb') and read() of a file: the exception raised, or None.
read_error(file) ==
    IF file = NoFile THEN "FileNotFoundError"
    ELSE IF file = NoAccess THEN "PermissionError"
    ELSE None

\* The exceptions the try block of needs_installation handles (line 134).
caught(error) == error = "FileNotFoundError"

\* The local `installed` of needs_installation.
installed(s, d) ==
    IF isdir_node_modules(d)
    THEN IF read_error(d.manifest) # None
         THEN FALSE
         ELSE md5(s.manifest) = md5(d.manifest)
    ELSE FALSE

\* The exception that leaves needs_installation, or None (lines 126-135).
needs_installation_error(s, d) ==
    IF isdir_node_modules(d) /\ ~caught(read_error(d.manifest))
    THEN read_error(d.manifest)
    ELSE None

\* Mutant: a stale destination resets the status.
status_after_check_reset(inst, st) == IF inst THEN READY ELSE UNINITIALIZED

\* _status when needs_installation returns (lines 136-139).
status_after_check(inst, st) == IF inst THEN READY ELSE st

needs_installation ==
    /\ server # None
    /\ LET inst == installed(src, dest)
           error == needs_installation_error(src, dest) IN
        /\ status' = (IF error = None THEN status_after_check(inst, status) ELSE status)
        /\ ret' = (IF error = None
                   THEN [op |-> "needs_installation", result |-> ~inst]
                   ELSE [op |-> "needs_installation raised", error |-> error])
    /\ UNCHANGED resolutionVars
    /\ UNCHANGED handlerVars
    /\ UNCHANGED legacyVars
    /\ UNCHANGED <<node_version, staged>>
    /\ UNCHANGED <<server, src, disk, pc, dependencies_installed, call, last,
                   srcChanged>>

\* ------------------------------------------------------- install_or_update
\* What a call remembers of the call finished before it began.
NoPrev == [outcome |-> "none", status |-> UNINITIALIZED, tree |-> NoTree,
           unchanged |-> FALSE]
NoCall == [outcome |-> "none", log |-> <<>>, prior |-> UNINITIALIZED,
           fresh |-> FALSE, status |-> UNINITIALIZED, tree |-> NoTree,
           prev |-> NoPrev]
Idle == [prior |-> UNINITIALIZED, log |-> <<>>, fresh |-> FALSE, prev |-> NoPrev]

\* Worker w leaves install_or_update: the call as its caller sees it.
Finish(w, outcome, error, log, st, tree) ==
    /\ last' = [outcome |-> outcome, log |-> log, prior |-> call[w].prior,
                fresh |-> call[w].fresh, status |-> st, tree |-> tree,
                prev |-> call[w].prev]
    /\ call' = [call EXCEPT ![w] = Idle]
    /\ srcChanged' = FALSE
    /\ pc' = [pc EXCEPT ![w] = "idle"]
    /\ ret' = [op |-> "install_or_update", result |-> outcome, error |-> error]

\* What a call that is entered now remembers.
Entered ==
    [prior |-> status, log |-> <<>>, fresh |-> FALSE,
     prev |-> [outcome |-> last.outcome, status |-> last.status,
               tree |-> last.tree, unchanged |-> ~srcChanged]]

\* A worker enters install_or_update.
install_or_update_call(w) ==
    /\ server # None
    /\ pc[w] = "idle"
    /\ pc' = [pc EXCEPT ![w] = "rmtree"]
    /\ call' = [call EXCEPT ![w] = Entered]
    /\ ret' = NoRet
    /\ UNCHANGED resolutionVars
    /\ UNCHANGED handlerVars
    /\ UNCHANGED legacyVars
    /\ UNCHANGED <<node_version, staged>>
    /\ UNCHANGED <<server, status, src, disk, dependencies_installed, last,
                   srcChanged>>

\* line 142
install_or_update_rmtree(w) ==
    /\ pc[w] = "rmtree"
    /\ disk' = [disk EXCEPT ![server_dest] = rmtree(dest)]
    /\ call' = [call EXCEPT ![w].log = Append(@, "rmtree")]
    /\ pc' = [pc EXCEPT ![w] = "copytree"]
    /\ ret' = NoRet
    /\ UNCHANGED resolutionVars
    /\ UNCHANGED handlerVars
    /\ UNCHANGED legacyVars
    /\ UNCHANGED <<node_version, staged>>
    /\ UNCHANGED <<server, status, src, dependencies_installed, last, srcChanged>>

\* line 143, the copy succeeds
install_or_update_copytree(w) ==
    /\ pc[w] = "copytree"
    /\ disk' = [disk EXCEPT ![server_dest] = copytree(src, dest)]
    /\ call' = [call EXCEPT ![w].log = Append(@, "copytree"),
                            ![w].fresh = isdir_node_modules(copytree(src, dest))]
    /\ pc' = [pc EXCEPT ![w] = "isdir"]
    /\ ret' = NoRet
    /\ staged' = staged \cup {node_version}
    /\ UNCHANGED resolutionVars
    /\ UNCHANGED handlerVars
    /\ UNCHANGED legacyVars
    /\ UNCHANGED node_version
    /\ UNCHANGED <<server, status, src, dependencies_installed, last, srcChanged>>

\* line 143, the copy raises: the exception leaves install_or_update
install_or_update_copytree_raises(w) ==
    /\ pc[w] = "copytree"
    /\ \E t \in copytree_partial(src, dest) :
        /\ disk' = [disk EXCEPT ![server_dest] = t]
        /\ Finish(w, "raised", "copytree error", Append(call[w].log, "copytree!"),
                  status, t)
    /\ staged' = staged \cup {node_version}
    /\ UNCHANGED resolutionVars
    /\ UNCHANGED handlerVars
    /\ UNCHANGED legacyVars
    /\ UNCHANGED node_version
    /\ UNCHANGED <<server, status, src, dependencies_installed>>

\* Mutant: the test of line 145 inverted.
after_isdir_inverted(installedAlready) ==
    IF installedAlready THEN "npm_install" ELSE "set_ready"

\* The step install_or_update takes after line 144.
after_isdir(installedAlready) ==
    IF installedAlready THEN "set_ready" ELSE "npm_install"

\* lines 144-145
install_or_update_isdir(w) ==
    /\ pc[w] = "isdir"
    /\ dependencies_installed' =
           [dependencies_installed EXCEPT ![w] = isdir_node_modules(dest)]
    /\ pc' = [pc EXCEPT ![w] = after_isdir(isdir_node_modules(dest))]
    /\ ret' = NoRet
    /\ UNCHANGED resolutionVars
    /\ UNCHANGED handlerVars
    /\ UNCHANGED legacyVars
    /\ UNCHANGED <<node_version, staged>>
    /\ UNCHANGED <<server, status, src, disk, call, last, srcChanged>>

\* line 147, npm exits 0
install_or_update_npm_install(w) ==
    /\ pc[w] = "npm_install"
    /\ dest.exists
    /\ disk' = [disk EXCEPT ![server_dest] = npm_installed(dest)]
    /\ call' = [call EXCEPT ![w].log = Append(@, "npm_install")]
    /\ pc' = [pc EXCEPT ![w] = "set_ready"]
    /\ ret' = NoRet
    /\ UNCHANGED resolutionVars
    /\ UNCHANGED handlerVars
    /\ UNCHANGED legacyVars
    /\ UNCHANGED <<node_version, staged>>
    /\ UNCHANGED <<server, status, src, dependencies_installed, last, srcChanged>>

\* Mutant: the assignment of line 149 is missing.
status_on_error_unset == status

\* The status install_or_update leaves when npm_install raised (line 149).
\* Mutant: a failed installer puts the resource back to its initial status.
status_on_error_reset == UNINITIALIZED

status_on_error == ERROR

\* lines 148-150, npm_install raises (npm exits non-zero, or package_dir is gone)
install_or_update_npm_install_raises(w) ==
    /\ pc[w] = "npm_install"
    /\ status' = status_on_error
    /\ Finish(w, "raised", "npm_install error", Append(call[w].log, "npm_install!"),
              status', dest)
    /\ UNCHANGED resolutionVars
    /\ UNCHANGED handlerVars
    /\ UNCHANGED legacyVars
    /\ UNCHANGED <<node_version, staged>>
    /\ UNCHANGED <<server, src, disk, dependencies_installed>>

\* Mutant: READY is set by the first install only.
status_on_success_once == IF status = UNINITIALIZED THEN READY ELSE status

\* The status install_or_update leaves when it returns (line 151).
status_on_success == READY

\* line 151
install_or_update_set_ready(w) ==
    /\ pc[w] = "set_ready"
    /\ status' = status_on_success
    /\ Finish(w, "returned", None, call[w].log, status', dest)
    /\ UNCHANGED resolutionVars
    /\ UNCHANGED handlerVars
    /\ UNCHANGED legacyVars
    /\ UNCHANGED <<node_version, staged>>
    /\ UNCHANGED <<server, src, disk, dependencies_installed>>

install_or_update(w) ==
    \/ install_or_update_call(w)
    \/ install_or_update_rmtree(w)
    \/ install_or_update_copytree(w)
    \/ install_or_update_copytree_raises(w)
    \/ install_or_update_isdir(w)
    \/ install_or_update_npm_install(w)
    \/ install_or_update_npm_install_raises(w)
    \/ install_or_update_set_ready(w)

\* The steps of a call that was entered.
install_or_update_steps(w) ==
    \/ install_or_update_rmtree(w)
    \/ install_or_update_copytree(w)
    \/ install_or_update_copytree_raises(w)
    \/ install_or_update_isdir(w)
    \/ install_or_update_npm_install(w)
    \/ install_or_update_npm_install_raises(w)
    \/ install_or_update_set_ready(w)

\* The package is updated: its source assets change while no install runs.
ChangeSource ==
    /\ \A w \in Workers : pc[w] = "idle"
    /\ \E s \in Sources :
        /\ s # src
        /\ src' = s
    /\ srcChanged' = TRUE
    /\ ret' = NoRet
    /\ UNCHANGED resolutionVars
    /\ UNCHANGED handlerVars
    /\ UNCHANGED legacyVars
    /\ UNCHANGED <<node_version, staged>>
    /\ UNCHANGED <<server, status, disk, pc, dependencies_installed, call, last>>

\* --------------------------------------------------------------- can_start
ErrorMessage == "Error installing server dependencies."
ProgressMessage == "Server installation in progress..."
AllowMessages == {None, "", "not allowed"}

\* Mutant: the ERROR status is not told apart from an unfinished installation.
can_start_without_error(manages, srv, st, message) ==
    IF manages /\ srv = None THEN ErrorMessage
    ELSE IF manages /\ st # READY THEN ProgressMessage
    ELSE IF message \notin {None, ""} THEN message
    ELSE None

\* ClientHandler.can_start: the returned message, None when start is permitted.
can_start(manages, srv, st, message) ==
    IF manages /\ (srv = None \/ st = ERROR) THEN ErrorMessage
    ELSE IF manages /\ st # READY THEN ProgressMessage
    ELSE IF message \notin {None, ""} THEN message
    ELSE None

\* can_start of a plugin class whose manages_server() is `manages` and whose
\* is_allowed_to_start() answers `message`.
CanStart ==
    /\ \E manages \in BOOLEAN, message \in AllowMessages :
        ret' = [op |-> "can_start", manages |-> manages, message |-> message,
                result |-> can_start(manages, server, status, message)]
    /\ UNCHANGED resolutionVars
    /\ UNCHANGED handlerVars
    /\ UNCHANGED legacyVars
    /\ UNCHANGED <<node_version, staged>>
    /\ UNCHANGED <<server, status, src, disk, pc, dependencies_installed, call,
                   last, srcChanged>>

\* ------------------------------------------------- resolve_node_distribution

\* node_version < minimum_node_version on SemanticVersion tuples.
VersionLess(a, b) ==
    \/ a[1] < b[1]
    \/ a[1] = b[1] /\ a[2] < b[2]
    \/ a[1] = b[1] /\ a[2] = b[2] /\ a[3] < b[3]

\* A Node distribution: whether node_exists(), and what resolve_version() does:
\* it returns `version`, or raises `raises`.
VersionErrors == {"version query failed", "version cannot be parsed"}
NoNode == [exists |-> FALSE, raises |-> None, version |-> NoVersion]
Nodes == {NoNode} \cup
         [exists : {TRUE}, raises : {None}, version : Versions] \cup
         [exists : {TRUE}, raises : VersionErrors, version : {NoVersion}]

\* NodeDistributionLocal.install_node() succeeded: the local Node is there,
\* resolve_version() answers as the downloaded distribution does.
install_node(node) == [node EXCEPT !.exists = TRUE]

\* What resolve_version() of the distribution `node` answers.
resolve_version(node, sys, loc) ==
    IF node = "system" THEN sys.version
    ELSE IF node = "local" THEN loc.version
    ELSE NoVersion

\* check_node_version: None when it returns, the error when it raises.
check_node_version(node, minimum_node_version) ==
    IF node.raises # None THEN node.raises
    ELSE IF VersionLess(node.version, minimum_node_version)
         THEN "Node version requirement failed."
         ELSE None

\* Mutant: the exception of check_node_version is not caught.
after_check_failure_raises == "raise"

\* What the loop does after a candidate's check raised (lines 62-64, 80-82):
\* the exception is logged and the loop goes on.
after_check_failure == "continue"
\* What the loop does when the user cancels the dialog (line 70).
after_decline == "return"
\* What the loop does when install_node raised (lines 73-75).
after_install_failure == "return"

\* One round of the loop of resolve_node_distribution for `distribution`.
\* answer: what the user answers to the dialog; installs: whether install_node
\* succeeds. verdict "return": the method returns `node`; "continue": next
\* round; "raise": an exception leaves the method.
Round(verdict, node, outcome, loc, shown) ==
    [verdict |-> verdict, node |-> node, outcome |-> outcome, loc |-> loc,
     shown |-> shown]

\* lines 59-64 and 77-82
checked(distribution, node, minimum, loc, shown) ==
    IF check_node_version(node, minimum) = None
    THEN Round("return", distribution, "selected", loc, shown)
    ELSE Round(after_check_failure, None, check_node_version(node, minimum),
               loc, shown)

\* Mutant: the dialog is shown whether or not the local Node is there.
dialog_needed_always(loc) == TRUE

\* Whether the local candidate asks the user before installing (line 67).
dialog_needed(loc) == ~loc.exists

candidate(distribution, sys, loc, minimum, answer, installs) ==
    IF distribution = "system" THEN
        IF sys.exists
        THEN checked("system", sys, minimum, loc, 0)
        ELSE Round("continue", None, "absent", loc, 0)
    ELSE IF distribution = "local" THEN
        IF dialog_needed(loc) THEN
            IF ~answer THEN Round(after_decline, None, "declined", loc, 1)
            ELSE IF ~installs
                 THEN Round(after_install_failure, None, "install failed", loc, 1)
                 ELSE checked("local", install_node(loc), minimum, install_node(loc), 1)
        ELSE checked("local", loc, minimum, loc, 0)
    ELSE Round("continue", None, "unknown", loc, 0)

RECURSIVE resolve_from(_, _, _, _, _, _, _, _)
resolve_from(i, distributions, sys, loc, minimum, answer, installs, acc) ==
    IF i > Len(distributions)
    THEN [node |-> None, loc |-> loc, log |-> acc.log, shown |-> acc.shown,
          raised |-> FALSE]
    ELSE LET r == candidate(distributions[i], sys, loc, minimum, answer, installs)
             log == Append(acc.log, [distribution |-> distributions[i],
                                     outcome |-> r.outcome])
             shown == acc.shown + r.shown
         IN IF r.verdict \in {"return", "raise"}
            THEN [node |-> r.node, loc |-> r.loc, log |-> log, shown |-> shown,
                  raised |-> r.verdict = "raise"]
            ELSE resolve_from(i + 1, distributions, sys, r.loc, minimum, answer,
                              installs, [log |-> log, shown |-> shown])

resolve_node_distribution(distributions, sys, loc, minimum, answer, installs) ==
    resolve_from(1, distributions, sys, loc, minimum, answer, installs,
                 [log |-> <<>>, shown |-> 0])

\* Mutant: create() returns a resource whatever the resolution gave.
created_always(node) == "ServerNpmResource"

\* What create() returns for the cached distribution (lines 46-48).
created(node) == IF node # None THEN "ServerNpmResource" ELSE None

\* Mutant: only a resolution that found a Node is remembered.
resolved_after_success_only(node) == node # None

\* _node_distribution_resolved once resolve_node_distribution returned `node`
\* (line 45).
resolved_after(node) == TRUE

\* ServerNpmResource.create for a package with the floor minimum_node_version;
\* the plugin keeps what it returns as its get_server().
create ==
    /\ \A w \in Workers : pc[w] = "idle"
    /\ \E minimum_node_version \in Versions, answer \in BOOLEAN, installs \in BOOLEAN :
        LET cached == node_distribution_resolved
            r == resolve_node_distribution(node_distributions, sysNode, localNode,
                                           minimum_node_version, answer, installs)
            raised == ~cached /\ r.raised
            node == IF cached THEN node_distribution ELSE r.node
            loc == IF cached THEN localNode ELSE r.loc
        IN
        /\ node_distribution' = (IF raised THEN node_distribution ELSE node)
        /\ node_distribution_resolved' =
               (IF cached THEN TRUE ELSE IF raised THEN FALSE ELSE resolved_after(node))
        /\ localNode' = loc
        /\ prompts' = (IF cached THEN prompts ELSE prompts + r.shown)
        /\ resolutions' = (IF cached THEN resolutions ELSE resolutions + 1)
        /\ resolveLog' = (IF cached THEN resolveLog ELSE r.log)
        /\ server' = (IF raised THEN server ELSE created(node))
        /\ node_version' = (IF raised \/ created(node) = None THEN NoVersion
                            ELSE resolve_version(node, sysNode, loc))
        /\ ret' = [op |-> "create", minimum |-> minimum_node_version,
                   resolved |-> ~cached,
                   node |-> IF raised THEN None ELSE node,
                   version |-> IF raised THEN NoVersion
                               ELSE resolve_version(node, sysNode, loc),
                   result |-> IF raised THEN "raised" ELSE created(node)]
    /\ status' = UNINITIALIZED
    /\ UNCHANGED <<node_distributions, sysNode, src, disk, staged, pc,
                   dependencies_installed, call, last, srcChanged>>
    /\ UNCHANGED handlerVars
    /\ UNCHANGED legacyVars

\* ------------------------------------------------------ decorated handlers
\* decorator.HANDLER_MARKS: client event -> name of the mark attribute.
HANDLER_MARKS == [notification |-> "__handle_notification_events",
                  request |-> "__handle_request_events"]
\* HANDLER_MARKS.items(), in the order of the dict literal.
ClientEvents == <<"notification", "request">>
MarkNames == {HANDLER_MARKS[client_event] : client_event \in DOMAIN HANDLER_MARKS}

\* The routines inspect.getmembers finds on the plugin, sorted by name.
Members == <<"handle_a", "handle_b">>
ServerEvents == {"$/progress", "workspace/configuration"}
EventLists == UNION {[1..n -> ServerEvents] : n \in 0..MaxEvents}

\* A function object without marks, and a decorator that was never applied.
NoAttr == [present |-> FALSE, value |-> <<>>]
NoAttrs == [func \in DOMAIN Members |-> [mark \in MarkNames |-> NoAttr]]
NotApplied == [type |-> "none", name |-> "", names |-> <<>>]
NoneApplied ==
    [func \in DOMAIN Members |-> [client_event \in DOMAIN HANDLER_MARKS |-> NotApplied]]

\* Line 34: [server_events] for a str, list(server_events) for an iterable.
server_events_list(is_str, name, names) == IF is_str THEN <<name>> ELSE names

\* notification_handler(server_events)(func) / request_handler(...)(func):
\* _create_handler's decorator sets the mark attribute (line 37).
decorator(func, client_event, is_str, name, names) ==
    /\ ~constructed
    /\ attrs' = [attrs EXCEPT ![func][HANDLER_MARKS[client_event]] =
                    [present |-> TRUE,
                     value |-> server_events_list(is_str, name, names)]]
    /\ applied' = [applied EXCEPT ![func][client_event] =
                      [type |-> IF is_str THEN "str" ELSE "list",
                       name |-> name, names |-> names]]
    /\ UNCHANGED <<registered, constructed>>
    /\ UNCHANGED provisionVars
    /\ UNCHANGED legacyVars

\* A method of the plugin class is decorated with one server event name.
decorate_str ==
    \E func \in DOMAIN Members, client_event \in DOMAIN HANDLER_MARKS,
       name \in ServerEvents :
        decorator(func, client_event, TRUE, name, <<>>)

\* A method of the plugin class is decorated with a list of server events.
decorate_list ==
    \E func \in DOMAIN Members, client_event \in DOMAIN HANDLER_MARKS,
       names \in EventLists :
        decorator(func, client_event, FALSE, "", names)

\* getattr(func, handler_mark, [])
getattr(func_attrs, handler_mark) ==
    IF func_attrs[handler_mark].present THEN func_attrs[handler_mark].value ELSE <<>>

\* Mutant: every mark is registered through on_request.
event_registrator_request(client_event) == "on_request"

\* getattr(api, "on_" + client_event, None) (line 182)
event_registrator(client_event) == "on_" \o client_event

\* Lines 184-186: the registrator calls for one member and one client event.
register_events(func, client_event, func_attrs) ==
    LET server_events == getattr(func_attrs, HANDLER_MARKS[client_event]) IN
    [i \in 1..Len(server_events) |->
        [registrator |-> event_registrator(client_event),
         server_event |-> server_events[i], func |-> Members[func]]]

\* Lines 180-186: the inner loop over HANDLER_MARKS.items().
RECURSIVE register_member(_, _, _)
register_member(func, k, all_attrs) ==
    IF k > Len(ClientEvents) THEN <<>>
    ELSE register_events(func, ClientEvents[k], all_attrs[func])
         \o register_member(func, k + 1, all_attrs)

\* Lines 178-186: the loop over inspect.getmembers.
RECURSIVE register_decorated_handlers(_, _)
register_decorated_handlers(func, all_attrs) ==
    IF func > Len(Members) THEN <<>>
    ELSE register_member(func, 1, all_attrs)
         \o register_decorated_handlers(func + 1, all_attrs)

\* ClientHandler.__init__ (lines 161-165)
construct ==
    /\ ~constructed
    /\ registered' = register_decorated_handlers(1, attrs)
    /\ constructed' = TRUE
    /\ UNCHANGED <<attrs, applied>>
    /\ UNCHANGED provisionVars
    /\ UNCHANGED legacyVars

\* -------------------------------------------------- legacy ClientHandler
\* server.install_or_update_async(): install_or_update is entered on a worker
\* thread of its own.
install_or_update_async(w) ==
    /\ pc[w] = "idle"
    /\ pc' = [pc EXCEPT ![w] = "rmtree"]
    /\ call' = [call EXCEPT ![w] = Entered]

\* language_handler.ClientHandler.setup of a class that manages its server
\* (lines 86-92); it is called on plugin load and from every constructor.
setup ==
    /\ setups < MaxSetups
    /\ setups' = setups + 1
    /\ LET error == IF server = None THEN None
                    ELSE needs_installation_error(src, dest)
           needed == server # None /\ error = None /\ ~installed(src, dest)
       IN
       /\ status' = (IF server # None /\ error = None
                     THEN status_after_check(installed(src, dest), status)
                     ELSE status)
       /\ IF needed
          THEN /\ \E w \in Workers : install_or_update_async(w)
               /\ started' = started + 1
          ELSE UNCHANGED <<pc, call, started>>
       /\ ret' = [op |-> "setup", raised |-> error, started |-> needed]
    /\ UNCHANGED resolutionVars
    /\ UNCHANGED handlerVars
    /\ UNCHANGED <<node_version, staged>>
    /\ UNCHANGED <<server, src, disk, dependencies_installed, last, srcChanged>>

\* Mutant: a managed server starts as soon as its resource exists.
on_start_without_status(manages, srv, st, message) ==
    IF manages THEN srv # None
    ELSE message \in {None, ""}

\* language_handler.ClientHandler.on_start (lines 70-79): whether the server
\* may start.
on_start(manages, srv, st, message) ==
    IF manages THEN srv # None /\ st = READY
    ELSE IF message \notin {None, ""} THEN FALSE
    ELSE TRUE

\* on_start of a legacy class whose manages_server() is `manages` and whose
\* is_allowed_to_start() answers `message`.
OnStart ==
    /\ \E manages \in BOOLEAN, message \in AllowMessages :
        ret' = [op |-> "on_start", manages |-> manages, message |-> message,
                result |-> on_start(manages, server, status, message)]
    /\ UNCHANGED resolutionVars
    /\ UNCHANGED handlerVars
    /\ UNCHANGED legacyVars
    /\ UNCHANGED <<node_version, staged>>
    /\ UNCHANGED <<server, status, src, disk, pc, dependencies_installed, call,
                   last, srcChanged>>

\* NpmClientHandler.on_start (npm_client_handler.py lines 135-141).
\* node_installed: shutil.which('node') is not None; has_server: the class
\* attribute __server is set; ready: the `ready` flag of that resource.
npm_on_start(node_installed, has_server, ready) ==
    IF ~node_installed THEN FALSE
    ELSE IF ~has_server THEN FALSE
    ELSE ready

NpmOnStart ==
    /\ \E node_installed \in BOOLEAN, has_server \in BOOLEAN, ready \in BOOLEAN :
        ret' = [op |-> "npm_on_start", node_installed |-> node_installed,
                has_server |-> has_server, ready |-> ready,
                result |-> npm_on_start(node_installed, has_server, ready)]
    /\ UNCHANGED resolutionVars
    /\ UNCHANGED handlerVars
    /\ UNCHANGED legacyVars
    /\ UNCHANGED <<node_version, staged>>
    /\ UNCHANGED <<server, status, src, disk, pc, dependencies_installed, call,
                   last, srcChanged>>

\* A later session on another Node: the user switched the Node on the PATH to
\* `version` and the plugin built its resource anew; __init__ (lines 91-101)
\* derives the destination from that version and starts UNINITIALIZED.
Restart(version) ==
    /\ server # None
    /\ node_distribution = "system"
    /\ \A w \in Workers : pc[w] = "idle"
    /\ version # node_version
    /\ sysNode' = [sysNode EXCEPT !.version = version]
    /\ node_version' = version
    /\ status' = UNINITIALIZED
    /\ last' = NoCall
    /\ srcChanged' = FALSE
    /\ ret' = NoRet
    /\ UNCHANGED <<node_distributions, localNode, node_distribution_resolved,
                   node_distribution, prompts, resolutions, resolveLog>>
    /\ UNCHANGED <<server, src, disk, staged, pc, dependencies_installed, call>>
    /\ UNCHANGED handlerVars
    /\ UNCHANGED legacyVars

\* ----------------------------------------------------------- specification
\* The state after the plugin created its server resource (create() returned a
\* resource or None); the disk is as an earlier session left it.
Init ==
    /\ node_distributions = <<"system">>
    /\ sysNode \in {n \in Nodes : n.raises = None /\ n.version \in {NoVersion, <<1, 0, 0>>}}
    /\ localNode = NoNode
    /\ node_distribution_resolved = TRUE
    /\ node_distribution = (IF sysNode.exists THEN "system" ELSE None)
    /\ prompts = 0
    /\ resolutions = 1
    /\ resolveLog = <<>>
    /\ server = created(node_distribution)
    /\ status = UNINITIALIZED
    /\ src \in Sources
    /\ node_version = (IF server = None THEN NoVersion ELSE sysNode.version)
    /\ \E tree \in Trees :
        disk = [p \in Paths |-> IF p = server_dest /\ server # None THEN tree ELSE NoTree]
    /\ staged = {}
    /\ pc = [w \in Workers |-> "idle"]
    /\ dependencies_installed = [w \in Workers |-> FALSE]
    /\ call = [w \in Workers |-> Idle]
    /\ last = NoCall
    /\ srcChanged = FALSE
    /\ ret = NoRet
    /\ attrs = NoAttrs
    /\ applied = NoneApplied
    /\ registered = <<>>
    /\ constructed = FALSE
    /\ setups = 0
    /\ started = 0

\* One worker thread runs the installs.
Next ==
    \/ needs_installation
    \/ install_or_update("w1")
    \/ ChangeSource
    \/ CanStart

Spec == Init /\ [][Next]_vars

\* The process from its start: nothing is resolved, no resource is created.
Lists(n) == UNION {[1..k -> {"system", "local"}] : k \in 0..n}

InitResolve ==
    /\ node_distributions \in Lists(MaxCandidates)
    /\ sysNode \in Nodes
    /\ localNode \in Nodes
    /\ node_distribution_resolved = FALSE
    /\ node_distribution = None
    /\ prompts = 0
    /\ resolutions = 0
    /\ resolveLog = <<>>
    /\ server = None
    /\ status = UNINITIALIZED
    /\ src = [manifest |-> <<"bytes", 1>>, bundled |-> FALSE]
    /\ node_version = NoVersion
    /\ disk = EmptyDisk
    /\ staged = {}
    /\ pc = [w \in Workers |-> "idle"]
    /\ dependencies_installed = [w \in Workers |-> FALSE]
    /\ call = [w \in Workers |-> Idle]
    /\ last = NoCall
    /\ srcChanged = FALSE
    /\ ret = NoRet
    /\ attrs = NoAttrs
    /\ applied = NoneApplied
    /\ registered = <<>>
    /\ constructed = FALSE
    /\ setups = 0
    /\ started = 0

NextResolve ==
    \/ create
    \/ CanStart

SpecResolve == InitResolve /\ [][NextResolve]_vars

\* The plugin class is written (its methods are decorated) and constructed.
InitHandlers ==
    /\ InitResolve
    /\ node_distributions = <<>> /\ sysNode = NoNode /\ localNode = NoNode

NextHandlers ==
    \/ decorate_str
    \/ decorate_list
    \/ construct

SpecHandlers == InitHandlers /\ [][NextHandlers]_vars

\* A legacy handler class: setup() calls and the installs they start.
NextLegacy ==
    \/ setup
    \/ OnStart
    \/ NpmOnStart
    \/ \E w \in Workers : install_or_update_steps(w)

SpecLegacy == Init /\ [][NextLegacy]_vars

\* Sessions on different Node versions, starting from an empty storage.
InitKeyed == Init /\ server # None /\ disk = EmptyDisk

NextKeyed ==
    \/ needs_installation
    \/ install_or_update("w1")
    \/ \E version \in {v \in Versions : v[2] = 0} : Restart(version)

SpecKeyed == InitKeyed /\ [][NextKeyed]_vars

\* Two worker threads run installs of the same resource.
InitConc == Init /\ server # None /\ dest.manifest # NoAccess

NextConc == \E w \in Workers : install_or_update(w)

SpecConc == InitConc /\ [][NextConc]_vars

\* ------------------------------------------------------------------ claims
JustReturned(op) == ret.op = op
InstallFinished == JustReturned("install_or_update")
InstallerFailed == InstallFinished /\ last.log # <<>> /\ last.log[Len(last.log)] = "npm_install!"

\* C1: needs_installation() returns False if and only if the marker directory
\* node_modules is present, the staged package.json exists and its bytes equal
\* the bytes of the source package.json; in every other case it returns True.
C1_NeedsInstallationIff ==
    JustReturned("needs_installation") =>
        /\ ret.result \in BOOLEAN
        /\ ret.result = FALSE <=>
              /\ dest.exists /\ dest.node_modules # NoDir
              /\ dest.manifest # NoFile
              /\ dest.manifest = src.manifest

C1_Witness ==
    /\ JustReturned("needs_installation") /\ ret.result = FALSE
    /\ dest.node_modules = "installed"

\* C2: from any prior status, install_or_update() removes the destination tree,
\* then copies the source assets, then runs the installer exactly when the marker
\* is absent from the fresh copy; a call in which the installer exited 0 or was
\* not needed returns with status READY and the staged manifest equal to the
\* source manifest.
C2_InstallOrder ==
    InstallFinished =>
        /\ ret.result = "returned" <=>
              last.log \in {<<"rmtree", "copytree">>,
                            <<"rmtree", "copytree", "npm_install">>}
        /\ ret.result = "returned" =>
              /\ last.log = <<"rmtree", "copytree", "npm_install">> <=> ~last.fresh
              /\ status = READY
              /\ dest.manifest = src.manifest
        /\ ret.result = "raised" =>
              last.log \in {<<"rmtree", "copytree!">>,
                            <<"rmtree", "copytree", "npm_install!">>}

C2_Witness ==
    /\ InstallFinished /\ ret.result = "returned"
    /\ last.prior = ERROR
    /\ last.log = <<"rmtree", "copytree", "npm_install">>

\* C3: when the installer fails, install_or_update() sets the status to ERROR,
\* raises an error carrying the installer's error, and leaves the destination
\* holding the freshly staged source assets without the node_modules marker.
C3_InstallerFailure ==
    InstallerFailed =>
        /\ ret.result = "raised" /\ ret.error = "npm_install error"
        /\ status = ERROR
        /\ dest.exists /\ dest.manifest = src.manifest
        /\ ~isdir_node_modules(dest)

C3_Witness == InstallerFailed /\ last.prior = READY

\* C4: for a plugin that manages its server, can_start() returns None only when
\* the server resource exists, its status is READY and is_allowed_to_start
\* returned no message; a missing resource or status ERROR gives the 'Error
\* installing server dependencies' message, any other status that is not READY
\* the distinct 'Server installation in progress' message.
C4_CanStartGate ==
    (JustReturned("can_start") /\ ret.manages) =>
        /\ ret.result = None =>
              server # None /\ status = READY /\ ret.message \in {None, ""}
        /\ (server = None \/ status = ERROR) => ret.result = ErrorMessage
        /\ (server # None /\ status \notin {READY, ERROR}) =>
              ret.result = ProgressMessage
        /\ ErrorMessage # ProgressMessage

C4_Witness ==
    /\ JustReturned("can_start") /\ ret.manages
    /\ status = ERROR /\ ret.result = ErrorMessage

\* C5: two concurrent install_or_update() calls on the same destination never
\* interleave: no call wipes, copies or installs while another call has wiped
\* the destination and not yet finished its installer.
InFlight(w) == pc[w] \in {"copytree", "isdir", "npm_install"}

C5_NoInterleaving ==
    \A v, w \in Workers : (InFlight(v) /\ InFlight(w)) => v = w

NodeOf(distribution) == IF distribution = "system" THEN sysNode ELSE localNode

\* A candidate that exists and whose version is at least the minimum.
Qualifies(distribution, minimum) ==
    /\ NodeOf(distribution).exists
    /\ NodeOf(distribution).raises = None
    /\ ~VersionLess(NodeOf(distribution).version, minimum)

\* The first candidate from position i on that qualifies, None when none does.
FirstQualifyingFrom(i, minimum) ==
    LET hits == {j \in i..Len(node_distributions) :
                    Qualifies(node_distributions[j], minimum)}
    IN IF hits = {} THEN None
       ELSE node_distributions[CHOOSE j \in hits : \A k \in hits : j <= k]

Resolved == ret.op = "create" /\ ret.resolved

\* C7: resolve_node_distribution returns the first candidate in declared order
\* that exists and has version >= the minimum; an earlier candidate that is
\* absent or below the floor never prevents a later qualifying one.
C7_FirstQualifyingWins ==
    Resolved => node_distribution = FirstQualifyingFrom(1, ret.minimum)

\* C8: when the local runtime is absent and the user declines the dialog, only
\* that candidate is skipped: a later candidate that exists and satisfies the
\* minimum is selected.
C8_DeclineSkipsOneCandidate ==
    Resolved =>
        \A i \in 1..Len(resolveLog) :
            resolveLog[i].outcome = "declined" =>
                node_distribution = FirstQualifyingFrom(i + 1, ret.minimum)

\* C9: when no candidate qualifies, the resolution gives no runtime and does not
\* raise, create() returns no resource, and can_start reports the error message
\* instead of permitting the start.
C9_NoRuntimeNoResource ==
    /\ (Resolved /\ FirstQualifyingFrom(1, ret.minimum) = None) =>
          /\ ret.result = None
          /\ node_distribution = None /\ node_distribution_resolved
    /\ (node_distribution_resolved /\ node_distribution = None) => server = None
    /\ (/\ JustReturned("can_start") /\ ret.manages
        /\ node_distribution_resolved /\ node_distribution = None) =>
          ret.result = ErrorMessage

C9_Witness ==
    /\ JustReturned("can_start") /\ ret.manages /\ ret.result = ErrorMessage
    /\ node_distribution_resolved
    /\ Len(resolveLog) = 2
    /\ resolveLog[1] = [distribution |-> "system",
                        outcome |-> "Node version requirement failed."]
    /\ resolveLog[2] = [distribution |-> "local", outcome |-> "declined"]

\* C10: a candidate whose version check raises (the version query fails, the
\* version cannot be parsed, the version is below the floor) is discarded alone:
\* create() does not raise and the next candidate of the list is evaluated.
CheckErrors == VersionErrors \cup {"Node version requirement failed."}

C10_CheckFailureSkipsCandidate ==
    /\ JustReturned("create") => ret.result # "raised"
    /\ \A i \in 1..Len(resolveLog) :
          resolveLog[i].outcome \in CheckErrors =>
              IF i < Len(node_distributions)
              THEN /\ Len(resolveLog) > i
                   /\ resolveLog[i + 1].distribution = node_distributions[i + 1]
              ELSE node_distribution = None

C10_Witness ==
    /\ Resolved
    /\ Len(resolveLog) = 2
    /\ resolveLog[1] = [distribution |-> "local",
                        outcome |-> "version cannot be parsed"]
    /\ resolveLog[2] = [distribution |-> "system", outcome |-> "selected"]
    /\ node_distribution = "system"

\* C11: over any sequence of create() calls of one process the install dialog
\* is shown at most once, and only by a resolution that reached a "local"
\* candidate whose Node was not there; a local Node that exists is never asked
\* about.
C11_PromptAtMostOnce ==
    [][prompts' # prompts =>
        /\ prompts = 0 /\ prompts' = 1
        /\ ~localNode.exists
        /\ \E i \in DOMAIN resolveLog' : resolveLog'[i].distribution = "local"]_vars

\* The dialog was shown by the first create(), and a later create() returned.
C11_Witness == prompts = 1 /\ ret.op = "create" /\ ~ret.resolved

\* C12: resolve_node_distribution runs at most once per process. Once a
\* create() ran it (it found a Node or not), no later create() runs it again:
\* the cache, the dialog count and the local Node stay as they are, every
\* resource returned is built on the cached distribution, and after a
\* resolution that found nothing every later create() returns None.
C12_ResolvedOnce ==
    /\ [](resolutions <= 1)
    /\ [](ret.op = "create" /\ ret.result # None =>
            ret.result = "ServerNpmResource" /\ ret.node = node_distribution
            /\ node_distribution # None)
    /\ [][resolutions >= 1 =>
            /\ resolutions' = resolutions
            /\ node_distribution' = node_distribution
            /\ node_distribution_resolved' = node_distribution_resolved
            /\ prompts' = prompts /\ localNode' = localNode
            /\ resolveLog' = resolveLog
            /\ (ret'.op = "create" =>
                  /\ ~ret'.resolved
                  /\ (node_distribution = None => ret'.result = None)
                  /\ (node_distribution # None => ret'.node = node_distribution))]_vars

\* The first create() found no Node although candidates were tried, and a later
\* create() returned None from the cache.
C12_Witness ==
    /\ ret.op = "create" /\ ~ret.resolved /\ ret.result = None
    /\ resolutions = 1 /\ Len(resolveLog) > 0

\* C13: when the copy of the source assets fails inside install_or_update(),
\* the call leaves the package not installed: get_status() is not READY after
\* the failed call.
CopyFailed == InstallFinished /\ ret.result = "raised" /\ ret.error = "copytree error"
C13_CopyFailureNotReady == CopyFailed => status # READY

\* C14: an I/O error while needs_installation() reads the staged manifest
\* (the file is missing or cannot be read) makes it return True; it never
\* raises.
C14_ReadErrorMeansTrue ==
    /\ ret.op # "needs_installation raised"
    /\ (JustReturned("needs_installation") /\ isdir_node_modules(dest)
          /\ read_error(dest.manifest) # None => ret.result = TRUE)

\* C15: needs_installation() changes nothing but the status: the destination
\* and the source stay as they are and no step of an install is taken. It sets
\* the status READY when it returns False and leaves the status as it was
\* when it returns True (or raises).
C15_NeedsInstallationFrame ==
    [][ret'.op \in {"needs_installation", "needs_installation raised"} =>
        /\ dest' = dest /\ src' = src
        /\ pc' = pc /\ call' = call /\ last' = last
        /\ dependencies_installed' = dependencies_installed
        /\ IF ret'.op = "needs_installation" /\ ret'.result = FALSE
           THEN status' = READY
           ELSE status' = status]_vars

\* needs_installation() returned True on a resource that is READY (the source
\* changed after an install) and left the status READY.
C15_Witness ==
    /\ JustReturned("needs_installation") /\ ret.result = TRUE
    /\ status = READY /\ srcChanged

\* C16: a resource starts UNINITIALIZED; after any sequence of
\* needs_installation() and install_or_update() calls its status is one of
\* UNINITIALIZED, READY and ERROR; once the status has left UNINITIALIZED it
\* never is UNINITIALIZED again.
C16_StatusLifecycle ==
    /\ status = UNINITIALIZED
    /\ [](status \in ServerStatus)
    /\ [][status # UNINITIALIZED => status' # UNINITIALIZED]_vars

\* The status went from READY to ERROR: an install of a READY resource failed
\* in the installer.
C16_Witness == InstallerFailed /\ last.prior = READY /\ status = ERROR

\* C17 (as stated): once a failed installer set ERROR, the status stays ERROR
\* over get_status(), needs_installation() and can_start() calls, and start is
\* refused, until a later install_or_update() call returns successfully: the
\* only step that takes the status out of ERROR is that return.
RefusedWhileError ==
    JustReturned("can_start") /\ ret.manages /\ status = ERROR =>
        ret.result = ErrorMessage
C17_ErrorUntilInstallReturns ==
    /\ []RefusedWhileError
    /\ [][status = ERROR /\ status' # ERROR =>
            /\ status' = READY
            /\ ret'.op = "install_or_update" /\ ret'.result = "returned"]_vars

\* C18: the destination directory is keyed by the Node version: two versions
\* give two different destination paths, no step of install_or_update() on the
\* resource of one version changes the directory of another version, and
\* needs_installation() of a resource for a version under which nothing has
\* been staged returns True.
C18_KeyedByVersion ==
    /\ [](\A v1, v2 \in Versions :
            v1 # v2 => server_dest_for(v1) # server_dest_for(v2))
    /\ [](JustReturned("needs_installation") /\ node_version \notin staged =>
            ret.result = TRUE)
    /\ [][\A version \in Versions \ {node_version} :
            disk'[server_dest_for(version)] = disk[server_dest_for(version)]]_vars

\* The package is installed under one Node version, and needs_installation()
\* of the resource for another version, under which nothing was staged,
\* returned True.
C18_Witness ==
    /\ JustReturned("needs_installation") /\ ret.result = TRUE
    /\ node_version \notin staged
    /\ \E version \in staged :
          disk[server_dest_for(version)].node_modules = "installed"

\* C20: every resource that create() returns runs on a Node whose resolved
\* version is at least the minimum_node_version of that same create() call.
C20_MinimumVersionMet ==
    JustReturned("create") /\ ret.result = "ServerNpmResource" =>
        ~VersionLess(ret.version, ret.minimum)

\* C19: when the ClientHandler is constructed, a method marked with
\* notification_handler(events) is registered through on_notification and a
\* method marked with request_handler(events) through on_request, once for
\* each event name of the list (a single string is a list of one); nothing
\* else is registered: no method without a mark, and no notification mark
\* through on_request or the reverse.
Marked(func, client_event) ==
    LET a == applied[func][client_event] IN
    IF a.type = "str" THEN <<a.name>>
    ELSE IF a.type = "list" THEN a.names
    ELSE <<>>
Count(seq, x) == Cardinality({i \in DOMAIN seq : seq[i] = x})
Registrator(client_event) ==
    IF client_event = "notification" THEN "on_notification" ELSE "on_request"
C19_MarksRegistered ==
    constructed =>
        /\ \A i \in DOMAIN registered :
              /\ registered[i].registrator \in {"on_notification", "on_request"}
              /\ registered[i].server_event \in ServerEvents
              /\ \E func \in DOMAIN Members : registered[i].func = Members[func]
        /\ \A func \in DOMAIN Members, client_event \in {"notification", "request"},
              name \in ServerEvents :
              Count(registered, [registrator |-> Registrator(client_event),
                                 server_event |-> name, func |-> Members[func]])
                  = Count(Marked(func, client_event), name)

\* A plugin was constructed whose first method carries a notification mark
\* given as one string and a request mark given as a list of two events, and
\* whose second method carries no mark: three registrations were made.
C19_Witness ==
    /\ constructed
    /\ applied[1]["notification"].type = "str"
    /\ applied[1]["request"].type = "list" /\ Len(applied[1]["request"].names) = 2
    /\ applied[2]["notification"].type = "none"
    /\ applied[2]["request"].type = "none"
    /\ Len(registered) = 3

\* C21: while an install_or_update() call is in flight on the worker (it has
\* wiped the destination and its installer has not finished), get_status() is
\* not READY and can_start() does not permit a managed server to start,
\* whatever the status was when the call began.
C21_NoReadyInFlight ==
    InFlight("w1") =>
        /\ status # READY
        /\ (JustReturned("can_start") /\ ret.manages => ret.result # None)

\* C22: when install_or_update() has returned without raising and the source
\* assets have not changed since, the next needs_installation() call returns
\* False: a successful install is not reported as stale.
AfterGoodInstall ==
    /\ \A w \in Workers : pc[w] = "idle"
    /\ last.outcome = "returned"
    /\ ~srcChanged
C22_FreshInstallNotStale ==
    (AfterGoodInstall
     /\ ret.op \in {"needs_installation", "needs_installation raised"}) =>
        /\ ret.op = "needs_installation"
        /\ ret.result = FALSE

\* needs_installation() returned False after a call that ran the installer.
C22_Witness ==
    /\ AfterGoodInstall /\ JustReturned("needs_installation")
    /\ ret.result = FALSE
    /\ last.log = <<"rmtree", "copytree", "npm_install">>

\* C23: a call of the legacy ClientHandler.setup() after the first one is a
\* no-op: the calls of one handler class start at most one asynchronous
\* installation, also when a call is made while the installation started by
\* an earlier call is still running, and a call starts none when
\* needs_installation() is False.
C23_SetupOnce ==
    /\ started <= 1
    /\ (JustReturned("setup") /\ setups > 1 => ~ret.started)
    /\ (JustReturned("setup") /\ ret.raised = None /\ server # None
          /\ installed(src, dest) => ~ret.started)

\* C24: the legacy on_start() lets a managed server start only when its
\* resource exists and is ready. ClientHandler.on_start returns True for a
\* managed server if and only if the resource is not None and its status is
\* READY; NpmClientHandler.on_start returns False when Node is not on the PATH
\* or the resource is missing, and the resource's ready flag otherwise.
C24_OnStartGate ==
    /\ (JustReturned("on_start") /\ ret.manages =>
          (ret.result = TRUE <=> (server # None /\ status = READY)))
    /\ (JustReturned("npm_on_start") =>
          ret.result = (IF ~ret.node_installed \/ ~ret.has_server
                        THEN FALSE ELSE ret.ready))

\* on_start let a managed server start after the install that setup() started
\* had run the installer and returned.
C24_Witness ==
    /\ JustReturned("on_start") /\ ret.manages /\ ret.result = TRUE
    /\ started = 1 /\ last.outcome = "returned"
    /\ \A w \in Workers : pc[w] = "idle"

====
